---- MODULE Spec2Model ----
(***************************************************************************)
(* Document-Analyzer backend: the ingestion run (routers/upload.py and     *)
(* routers/documents/upload.py), the question path (routers/chat.py) and   *)
(* the AI services they drive (services/ai_services.py).                   *)
(*                                                                         *)
(* Strings are sequences of segments [w, n]: the first n characters of the *)
(* literal phrase w.  Lengths and keyword positions of the phrases are the *)
(* ones of the literals in the source.                                     *)
(***************************************************************************)
EXTENDS Integers, Sequences, FiniteSets, TLC

VARIABLES
    pinecone_index,   \* AIServices.pinecone_index is set (TRUE) or None (FALSE)
    router,           \* which upload router the application mounts: "upload" | "documents"
    documents,        \* the "documents" table: document id -> row
    index,            \* the Pinecone index: a set of vector records
    runs,             \* the ingestion runs started so far, in upload order
    last,             \* the last ask_question request and its response
    confIn,           \* input of the confidence computation (two match-score lists)
    confOut,          \* its output (the two confidences)
    callIn,           \* one call of a text service: the operation and its arguments
    callOut           \* what the call returned

vars == <<pinecone_index, router, documents, index, runs, last, confIn, confOut,
          callIn, callOut>>
mainVars == <<pinecone_index, router, documents, index, runs, last>>
confVars == <<confIn, confOut>>
textVars == <<callIn, callOut>>

\* ------------------------------------------------------------------ bounds
MaxRuns == 2
MaxScores == 3
MaxSents == 5

\* ------------------------------------------------------------------ program constants
StatusErrLimit == 200       \* str(e)[:200]
ExcerptLimit == 1000        \* chunk[:1000]
DefaultChunkSize == 1000    \* max_chunk_size
DefaultOverlap == 100       \* overlap
OverlapSentences == 2       \* current_chunk[-2:]
BatchSize == 100            \* batch_size
TopK == 5                   \* k
MinFallbackChars == 50      \* len(extracted_text.strip()) >= 50
CompletedMinLen == 50       \* len(summary) > 50
ScoreScale == 10            \* scores are kept in tenths

\* ------------------------------------------------------------------ strings
Min(a, b) == IF a <= b THEN a ELSE b

PhraseLen(w) ==
    CASE w = "Processing with Gemini 2.5 Flash AI..." -> 38
      [] w = "Processing with Gemini..." -> 25
      [] w = "AI processing failed: " -> 22
      [] w = ". Document uploaded but analysis incomplete." -> 44
      [] w = "Could not extract text from document" -> 36
      [] w = "Analysis encountered an error for " -> 34
      [] w = "\n\nKey Insights:\n* " -> 18
      [] w = "\n* " -> 3
      [] w = "Processing failed - document may need manual review" -> 51
      [] w = "Advanced analysis completed for " -> 32
      [] w = ". The document contains N characters of text across M words." -> 65
      [] w = "Document processed with Gemini 2.5 Flash" -> 40
      [] w = "Text extraction successful from " -> 32
      [] w = "Ready for RAG-based question answering" -> 38
      [] w = ": " -> 2
      [] w = "doc.txt" -> 7
      [] w = "empty.txt" -> 9
      [] w = "short.txt" -> 9
      [] w = "sequence item 0: expected str instance, dict found" -> 50
      [] w = "<database message of 260 characters>" -> 260
      [] w = "<model summary of 120 characters>" -> 120
      [] w = "<model insight of 40 characters>" -> 40
      [] w = "429 quota exceeded" -> 18
      [] OTHER -> 0

\* End offset of the first occurrence of kw in phrase w, 0 when there is none.
\* "Processing" and "processing" are matched as written, the other keywords on
\* the lower-cased phrase.
KwEnd(w, kw) ==
    CASE w = "Processing with Gemini 2.5 Flash AI..." /\ kw = "Processing" -> 10
      [] w = "Processing with Gemini..." /\ kw = "Processing" -> 10
      [] w = "AI processing failed: " /\ kw = "processing" -> 13
      [] w = "AI processing failed: " /\ kw = "failed" -> 20
      [] w = "Analysis encountered an error for " /\ kw = "error" -> 29
      [] w = "Processing failed - document may need manual review" /\ kw = "Processing" -> 10
      [] w = "Processing failed - document may need manual review" /\ kw = "failed" -> 17
      [] w = "Advanced analysis completed for " /\ kw = "completed" -> 27
      [] OTHER -> 0

Lit(w) == <<[w |-> w, n |-> PhraseLen(w)]>>

RECURSIVE StrLen(_)
StrLen(s) == IF s = <<>> THEN 0 ELSE Head(s).n + StrLen(Tail(s))

\* s[:k]
RECURSIVE Slice(_, _)
Slice(s, k) ==
    IF s = <<>> \/ k <= 0 THEN <<>>
    ELSE IF Head(s).n <= k THEN <<Head(s)>> \o Slice(Tail(s), k - Head(s).n)
    ELSE <<[w |-> Head(s).w, n |-> k]>>

\* kw in s
Contains(s, kw) ==
    \E i \in 1..Len(s) : KwEnd(s[i].w, kw) # 0 /\ s[i].n >= KwEnd(s[i].w, kw)

\* sep.join(items)
RECURSIVE Join(_, _)
Join(sep, items) ==
    IF items = <<>> THEN <<>>
    ELSE IF Len(items) = 1 THEN Head(items)
    ELSE Head(items) \o sep \o Join(sep, Tail(items))

\* ------------------------------------------------------------------ files and text
\* A text is the sequence of its sentences; a sentence [f, k, len] is the k-th
\* sentence of file f, len characters long with its terminal period.
Sent(f, k, n) == [f |-> f, k |-> k, len |-> n]

\* An uploaded file: its extension, what its bytes decode to as UTF-8 and what
\* the format parser yields (parse_ok is FALSE when the parser raises).
F_EMPTY == [name |-> "empty.txt", ext |-> ".txt", decoded |-> <<>>, parsed |-> <<>>, parse_ok |-> TRUE]
F_SHORT == [name |-> "short.txt", ext |-> ".txt",
            decoded |-> <<Sent("short", 1, 20)>>, parsed |-> <<>>, parse_ok |-> TRUE]
F_DOC   == [name |-> "doc.txt", ext |-> ".txt",
            decoded |-> [k \in 1..8 |-> Sent("doc", k, 300)], parsed |-> <<>>, parse_ok |-> TRUE]
Files == {F_EMPTY, F_SHORT, F_DOC}

RECURSIVE SumLen(_)
SumLen(ss) == IF ss = <<>> THEN 0 ELSE Head(ss).len + SumLen(Tail(ss))

\* len(' '.join(sentences)); 0 for no sentence
JoinedLen(ss) == IF ss = <<>> THEN 0 ELSE SumLen(ss) + Len(ss) - 1

\* faulty variant: a placeholder text instead of an empty result
extract_text_or_placeholder(file) ==
    LET text == IF file.ext \in {".pdf", ".docx", ".doc"}
                THEN IF file.parse_ok THEN file.parsed ELSE file.decoded
                ELSE file.decoded
    IN IF text = <<>> THEN <<Sent("placeholder", 0, 40)>> ELSE text

extract_text_from_file(file) ==
    IF file.ext \in {".pdf", ".docx", ".doc"}
    THEN IF file.parse_ok THEN file.parsed ELSE file.decoded
    ELSE file.decoded

\* the loop of split_text over the sentences of all paragraphs, in order
RECURSIVE SplitLoop(_, _, _, _, _, _)
SplitLoop(sents, chunks, current_chunk, current_size, max_chunk_size, overlap) ==
    IF sents = <<>>
    THEN IF current_chunk # <<>> THEN Append(chunks, current_chunk) ELSE chunks
    ELSE LET sentence == Head(sents)
             sentence_size == sentence.len + 1
         IN IF current_size + sentence_size > max_chunk_size /\ current_chunk # <<>>
            THEN IF overlap > 0 /\ Len(current_chunk) > 2
                 THEN LET n == Len(current_chunk)
                          keep == SubSeq(current_chunk, n - OverlapSentences + 1, n)
                          next == keep \o <<sentence>>
                      IN SplitLoop(Tail(sents), Append(chunks, current_chunk), next,
                                   SumLen(next) + Len(next), max_chunk_size, overlap)
                 ELSE SplitLoop(Tail(sents), Append(chunks, current_chunk), <<sentence>>,
                                sentence_size, max_chunk_size, overlap)
            ELSE SplitLoop(Tail(sents), chunks, Append(current_chunk, sentence),
                           current_size + sentence_size, max_chunk_size, overlap)

\* faulty variant: the chunk under construction is not added at the end
split_text_without_last(text, max_chunk_size, overlap) ==
    IF text = <<>> THEN <<>>
    ELSE LET chunks == SplitLoop(text, <<>>, <<>>, 0, max_chunk_size, overlap)
         IN SubSeq(chunks, 1, Len(chunks) - 1)

split_text(text, max_chunk_size, overlap) ==
    IF text = <<>> THEN <<>>
    ELSE SplitLoop(text, <<>>, <<>>, 0, max_chunk_size, overlap)

\* chunk[:1000]: the sentences of the chunk and the number of characters kept
Excerpt(chunk) == [sents |-> chunk, n |-> Min(JoinedLen(chunk), ExcerptLimit)]

\* ------------------------------------------------------------------ embeddings and index
\* One call sequence to cohere_client.embed: `fails` of the three attempts
\* raise.  The first attempt passes the input_type, the other two none.
EmbedFails == 0..3
EmbedMode(fails, input_type) == IF fails = 0 THEN input_type ELSE "none"

\* the number of calls to cohere_client.embed this makes
EmbedAttempts(fails) == Min(fails + 1, 3)

\* [chunk for chunk in text_chunks if chunk.strip()]
NonEmptyChunk(chunk) == chunk # <<>>
SelectSeq2(chunks) == SelectSeq(chunks, NonEmptyChunk)

\* faulty variant: vector ids count from 1
VectorOneBased(document_id, i, chunk, mode) ==
    [id |-> <<document_id, i + 1>>,
     values |-> [input_type |-> mode],
     metadata |-> [document_id |-> document_id, chunk_index |-> i, text |-> Excerpt(chunk)]]

Vector(document_id, i, chunk, mode) ==
    [id |-> <<document_id, i>>,
     values |-> [input_type |-> mode],
     metadata |-> [document_id |-> document_id, chunk_index |-> i, text |-> Excerpt(chunk)]]

\* faulty variant: an upsert that first drops every vector of the documents in the batch
UpsertReplacingDocument(idx, batch) ==
    {v \in idx : \A j \in 1..Len(batch) :
                    batch[j].metadata.document_id # v.metadata.document_id}
        \cup {batch[j] : j \in 1..Len(batch)}

\* pinecone_index.upsert(vectors=batch)
Upsert(idx, batch) ==
    {v \in idx : \A j \in 1..Len(batch) : batch[j].id # v.id}
        \cup {batch[j] : j \in 1..Len(batch)}

\* the batches vectors[i:i + batch_size]
NumBatches(vectors) == (Len(vectors) + BatchSize - 1) \div BatchSize

\* faulty variant: the slice takes one vector too many
BatchInclusive(vectors, b) ==
    SubSeq(vectors, (b - 1) * BatchSize + 1, Min(b * BatchSize + 1, Len(vectors)))

Batch(vectors, b) ==
    SubSeq(vectors, (b - 1) * BatchSize + 1, Min(b * BatchSize, Len(vectors)))

RECURSIVE UpsertBatches(_, _, _, _)
UpsertBatches(idx, vectors, b, upto) ==
    IF b > upto THEN idx
    ELSE UpsertBatches(Upsert(idx, Batch(vectors, b)), vectors, b + 1, upto)

\* create_embeddings: `fails` embed attempts raise; upsert number `failAt`
\* raises (0: none does).  Yields the returned flag, the index afterwards,
\* the batches of the upsert calls made, the raising one included, and the
\* number of embed calls made.
create_embeddings(idx, text_chunks, document_id, fails, failAt) ==
    LET skipped == [ok |-> FALSE, index |-> idx, upserts |-> <<>>, embed_calls |-> 0]
    IN IF text_chunks = <<>> THEN skipped
       ELSE IF ~pinecone_index THEN skipped
       ELSE LET valid_chunks == SelectSeq2(text_chunks)
            IN IF valid_chunks = <<>> THEN skipped
               ELSE IF fails = 3 THEN [skipped EXCEPT !.embed_calls = EmbedAttempts(fails)]
               ELSE LET mode == EmbedMode(fails, "search_document")
                        vectors == [i \in 1..Len(valid_chunks) |->
                                       Vector(document_id, i - 1, valid_chunks[i], mode)]
                        nb == NumBatches(vectors)
                    IN IF failAt \in 1..nb
                       THEN [ok |-> FALSE,
                             index |-> UpsertBatches(idx, vectors, 1, failAt - 1),
                             upserts |-> [b \in 1..failAt |-> Batch(vectors, b)],
                             embed_calls |-> EmbedAttempts(fails)]
                       ELSE [ok |-> TRUE, index |-> UpsertBatches(idx, vectors, 1, nb),
                             upserts |-> [b \in 1..nb |-> Batch(vectors, b)],
                             embed_calls |-> EmbedAttempts(fails)]

\* ------------------------------------------------------------------ document analysis
\* What gemini_model.generate_content does for the analysis prompt: it raises
\* (err is str(e)), or answers text that is no JSON, or answers a JSON object
\* with a summary and insights (a list of strings, or a list whose items are
\* no strings: well_formed is FALSE).
GeminiRaise(err) == [kind |-> "raise", err |-> err, summary |-> <<>>, insights |-> <<>>,
                     well_formed |-> TRUE]
GeminiText == [kind |-> "text", err |-> <<>>, summary |-> <<>>, insights |-> <<>>,
               well_formed |-> TRUE]
GeminiJson(summary, insights, wf) == [kind |-> "json", err |-> <<>>, summary |-> summary,
                                      insights |-> insights, well_formed |-> wf]

AnalysisOutcomes ==
    { GeminiRaise(Lit("429 quota exceeded")),
      GeminiText,
      GeminiJson(Lit("<model summary of 120 characters>"),
                 <<Lit("<model insight of 40 characters>")>>, TRUE),
      GeminiJson(Lit("<model summary of 120 characters>"),
                 <<Lit("<model insight of 40 characters>")>>, FALSE) }

\* analyze_document: the returned dict, its 'summary' and 'insights' keys
analyze_document(file, gemini) ==
    LET text_content == extract_text_from_file(file)
        filename == Lit(file.name)
    IN IF text_content = <<>>
       THEN [summary |-> Lit("Could not extract text from document"),
             insights |-> <<>>, well_formed |-> TRUE]
       ELSE IF gemini.kind = "raise"
       THEN [summary |-> Lit("Analysis encountered an error for ") \o filename
                           \o Lit(": ") \o Slice(gemini.err, StatusErrLimit),
             insights |-> <<Lit("Processing failed - document may need manual review")>>,
             well_formed |-> TRUE]
       ELSE IF gemini.kind = "text"
       THEN [summary |-> Lit("Advanced analysis completed for ") \o filename
                \o Lit(". The document contains N characters of text across M words."),
             insights |-> <<Lit("Document processed with Gemini 2.5 Flash"),
                            Lit("Text extraction successful from ") \o filename,
                            Lit("Ready for RAG-based question answering")>>,
             well_formed |-> TRUE]
       ELSE [summary |-> gemini.summary, insights |-> gemini.insights,
             well_formed |-> gemini.well_formed]

\* upload.py 168-172: the summary text of the final status write, or the
\* TypeError of the join over insights that are no strings
FinalSummary(analysis_result) ==
    IF analysis_result.insights = <<>>
    THEN [raised |-> FALSE, text |-> analysis_result.summary]
    ELSE IF ~analysis_result.well_formed
    THEN [raised |-> TRUE,
          text |-> Lit("sequence item 0: expected str instance, dict found")]
    ELSE [raised |-> FALSE,
          text |-> analysis_result.summary \o Lit("\n\nKey Insights:\n* ")
                     \o Join(Lit("\n* "), SubSeq(analysis_result.insights, 1,
                                                 Min(3, Len(analysis_result.insights))))]

\* the status text written at upload
ProcessingMarker(r) ==
    IF r = "upload" THEN Lit("Processing with Gemini 2.5 Flash AI...")
    ELSE Lit("Processing with Gemini...")

\* the status text of the exception path
ErrorSummary(r, e) ==
    IF r = "upload"
    THEN Lit("AI processing failed: ") \o Slice(e, StatusErrLimit)
            \o Lit(". Document uploaded but analysis incomplete.")
    ELSE Lit("AI processing failed: ") \o Slice(e, StatusErrLimit)

\* get_upload_status: the status derived from the summary text
DeriveStatus(summary) ==
    IF Contains(summary, "Processing") \/ Contains(summary, "processing") THEN "processing"
    ELSE IF Contains(summary, "failed") \/ Contains(summary, "error") THEN "failed"
    ELSE IF Contains(summary, "completed")
            \/ (summary # <<>> /\ StrLen(summary) > CompletedMinLen) THEN "completed"
    ELSE "pending"

\* what str(e) is when a status write fails
DbErrors == { Lit("<database message of 260 characters>") }
DbOutcomes == {[ok |-> TRUE, err |-> <<>>]} \cup {[ok |-> FALSE, err |-> e] : e \in DbErrors}

\* ------------------------------------------------------------------ the question path
Docs == {"A", "B"}
DocRank(d) == IF d = "A" THEN 0 ELSE 1

\* Confidences are exact fractions num/den.
Zero == [num |-> 0, den |-> 1]
Half == [num |-> 1, den |-> 2]
One == [num |-> 1, den |-> 1]
RatEq(a, b) == a.num * b.den = b.num * a.den
RatLeq(a, b) == a.num * b.den <= b.num * a.den

\* The similarity the index computes between the query vector and a stored
\* vector is the environment's: one of these score assignments, in tenths.
ScoreFns == {"near", "rising", "opposed"}
Score(fn, v) ==
    CASE fn = "near" -> 9 - v.metadata.chunk_index
      [] fn = "rising" -> 3 + v.metadata.chunk_index
      [] OTHER -> 0 - (1 + v.metadata.chunk_index)

NoFilter == "$none"

\* the order of the index's answer: similarity-descending
Before(fn, v, w) ==
    \/ Score(fn, v) > Score(fn, w)
    \/ /\ Score(fn, v) = Score(fn, w)
       /\ \/ DocRank(v.metadata.document_id) < DocRank(w.metadata.document_id)
          \/ /\ v.metadata.document_id = w.metadata.document_id
             /\ v.metadata.chunk_index < w.metadata.chunk_index

RECURSIVE Ranked(_, _)
Ranked(fn, S) ==
    IF S = {} THEN <<>>
    ELSE LET top == CHOOSE v \in S : \A w \in S \ {v} : Before(fn, v, w)
         IN <<top>> \o Ranked(fn, S \ {top})

\* pinecone_index.query(vector, filter, top_k, include_metadata=True).matches
PineconeQuery(idx, fn, filter, top_k) ==
    LET hits == {v \in idx : filter = NoFilter \/ v.metadata.document_id = filter}
        all == Ranked(fn, hits)
    IN [i \in 1..Min(top_k, Len(all)) |->
            [id |-> all[i].id, score |-> Score(fn, all[i]), metadata |-> all[i].metadata]]

RECURSIVE SumSeq(_)
SumSeq(xs) == IF xs = <<>> THEN 0 ELSE Head(xs) + SumSeq(Tail(xs))

\* faulty variant: the sum of the scores, not their mean
ConfidenceOfSum(scores) ==
    LET total == [num |-> SumSeq(scores), den |-> ScoreScale]
    IN IF RatLeq(total, One) THEN total ELSE One

\* min(sum(scores) / len(scores), 1.0)
ConfidenceOf(scores) ==
    LET avg_confidence == [num |-> SumSeq(scores), den |-> Len(scores) * ScoreScale]
    IN IF RatLeq(avg_confidence, One) THEN avg_confidence ELSE One

\* faulty variant: the index query without the document filter
QueryFilterNone(document_id) == NoFilter

\* the filter of the index query
QueryFilter(document_id) == document_id

\* faulty variant: the chunk indices in document order
RECURSIVE Ascending(_)
Ascending(S) ==
    IF S = {} THEN <<>>
    ELSE LET m == CHOOSE x \in S : \A y \in S : x <= y IN <<m>> \o Ascending(S \ {m})
SourcesInDocumentOrder(matches) ==
    Ascending({matches[i].metadata.chunk_index : i \in 1..Len(matches)})

\* [match.metadata["chunk_index"] for match in results.matches]
Sources(matches) == [i \in 1..Len(matches) |-> matches[i].metadata.chunk_index]

\* [match.metadata["text"] for match in results.matches], joined in this order
Context(matches) == [i \in 1..Len(matches) |-> matches[i].metadata.text]

Result(answer, sources, confidence) ==
    [raised |-> FALSE, answer |-> answer, sources |-> sources, confidence |-> confidence]

\* faulty variant: no handler: the exception leaves query_rag
OnQueryErrorUncaught ==
    [raised |-> TRUE, answer |-> "", sources |-> <<>>, confidence |-> Zero]

\* What the handler of query_rag's try block makes of an exception.
OnQueryError == Result("Sorry, I encountered an error while searching the document", <<>>, Zero)

\* query_rag.  The environment: `fails` of the three embed attempts raise, the
\* index query raises or ranks by `fn`, the generation call raises or answers.
\* Besides the returned dict the record keeps what the call did: the call that
\* failed, the filter and the matches of the index query, the prompt's context.
query_rag(idx, document_id, k, fails, index_raises, fn, generate_raises) ==
    LET none == [failed |-> "none", queried |-> FALSE, filter |-> NoFilter,
                 matches |-> <<>>, context |-> <<>>, input_type |-> "none",
                 embed_calls |-> 0]
    IN IF ~pinecone_index
       THEN [ret |-> Result("RAG functionality is not available", <<>>, Zero)] @@ none
       ELSE IF fails = 3
       THEN [ret |-> OnQueryError, failed |-> "embed",
             embed_calls |-> EmbedAttempts(fails)] @@ none
       ELSE LET mode == EmbedMode(fails, "search_query")
                filter == QueryFilter(document_id)
            IN IF index_raises
               THEN [ret |-> OnQueryError, failed |-> "index", queried |-> TRUE,
                     filter |-> filter, input_type |-> mode,
                     embed_calls |-> EmbedAttempts(fails)] @@ none
               ELSE LET matches == PineconeQuery(idx, fn, filter, k)
                        asked == [queried |-> TRUE, filter |-> filter, matches |-> matches,
                                  input_type |-> mode,
                                  embed_calls |-> EmbedAttempts(fails)]
                    IN IF matches = <<>>
                       THEN [ret |-> Result("I could not find relevant information", <<>>, Zero)]
                                @@ asked @@ none
                       ELSE IF generate_raises
                       THEN [ret |-> OnQueryError, failed |-> "generate",
                             context |-> Context(matches)] @@ asked @@ none
                       ELSE [ret |-> Result("generated", Sources(matches),
                                            ConfidenceOf([i \in 1..Len(matches) |->
                                                             matches[i].score])),
                             context |-> Context(matches)] @@ asked @@ none

\* chat.py 39-45: what ask_question makes of an exception raised by query_rag
Apology == Result("I apologize, but I'm unable to process your question", <<>>, Zero)

\* faulty variant: the test on the sources inverted
FallbackConditionInverted(rag_response) ==
    rag_response.sources # <<>> /\ RatEq(rag_response.confidence, Zero)

\* chat.py 48: the condition under which the fallback is entered
FallbackCondition(rag_response) ==
    rag_response.sources = <<>> /\ RatEq(rag_response.confidence, Zero)

GenOutcomes == {"raise", "empty", "answer"}

\* faulty variant: the direct answer is given only when the embedding succeeded
FallbackNeedsEmbedding(idx, doc_row, document_id, rag_response, download_ok, fails, failAt, gen) ==
    LET same == [response |-> rag_response, index |-> idx, extracted |-> <<>>,
                 embed_calls |-> 0, embedded |-> FALSE, gen |-> "none"]
    IN IF ~doc_row.exists THEN [branch |-> "no row"] @@ same
       ELSE IF ~download_ok THEN [branch |-> "download failed"] @@ same
       ELSE LET extracted_text == extract_text_from_file(doc_row.file)
            IN IF ~(extracted_text # <<>> /\ JoinedLen(extracted_text) >= MinFallbackChars)
               THEN [branch |-> "insufficient text", extracted |-> extracted_text] @@ same
               ELSE LET chunks == split_text(extracted_text, DefaultChunkSize, DefaultOverlap)
                        made == create_embeddings(idx, chunks, document_id, fails, failAt)
                    IN IF gen = "answer" /\ made.ok
                       THEN [branch |-> "answered", response |-> Result("direct", <<>>, Half),
                             index |-> made.index, extracted |-> extracted_text,
                             embed_calls |-> made.embed_calls, embedded |-> made.ok,
                             gen |-> gen]
                       ELSE [branch |-> IF gen = "raise" THEN "generation failed"
                                        ELSE "empty answer",
                             response |-> rag_response,
                             index |-> made.index, extracted |-> extracted_text,
                             embed_calls |-> made.embed_calls, embedded |-> made.ok,
                             gen |-> gen]

\* chat.py 49-90: the direct-extraction fallback.  download_ok: the download of
\* the stored original succeeds; fails, failAt: as in create_embeddings; gen:
\* what the direct generation call does.  Yields the response, the index
\* afterwards, the branch taken and what its calls did.
Fallback(idx, doc_row, document_id, rag_response, download_ok, fails, failAt, gen) ==
    LET same == [response |-> rag_response, index |-> idx, extracted |-> <<>>,
                 embed_calls |-> 0, embedded |-> FALSE, gen |-> "none"]
    IN IF ~doc_row.exists THEN [branch |-> "no row"] @@ same
       ELSE IF ~download_ok THEN [branch |-> "download failed"] @@ same
       ELSE LET extracted_text == extract_text_from_file(doc_row.file)
            IN IF ~(extracted_text # <<>> /\ JoinedLen(extracted_text) >= MinFallbackChars)
               THEN [branch |-> "insufficient text", extracted |-> extracted_text] @@ same
               ELSE LET chunks == split_text(extracted_text, DefaultChunkSize, DefaultOverlap)
                        made == create_embeddings(idx, chunks, document_id, fails, failAt)
                    IN IF gen = "answer"
                       THEN [branch |-> "answered", response |-> Result("direct", <<>>, Half),
                             index |-> made.index, extracted |-> extracted_text,
                             embed_calls |-> made.embed_calls, embedded |-> made.ok,
                             gen |-> gen]
                       ELSE [branch |-> IF gen = "raise" THEN "generation failed"
                                        ELSE "empty answer",
                             response |-> rag_response,
                             index |-> made.index, extracted |-> extracted_text,
                             embed_calls |-> made.embed_calls, embedded |-> made.ok,
                             gen |-> gen]

NoAsk == [doc |-> "none", q |-> <<>>, entered |-> FALSE, branch |-> "none", stored |-> 0,
          extracted |-> <<>>, response |-> <<>>, fb_embed_calls |-> 0,
          fb_embedded |-> FALSE, fb_gen |-> "none"]

\* ------------------------------------------------------------------ state
NoCall == [op |-> "none"]
NoRow == [exists |-> FALSE, summary |-> <<>>, file |-> F_EMPTY]

Init ==
    /\ pinecone_index \in BOOLEAN
    /\ router = "upload"
    /\ documents = [d \in Docs |-> NoRow]
    /\ index = {}
    /\ runs = <<>>
    /\ last = NoAsk
    /\ confIn = <<>>
    /\ confOut = <<>>
    /\ callIn = NoCall
    /\ callOut = NoCall

\* ------------------------------------------------------------------ ingestion
\* faulty variant: an upload is rejected while a run of the same id is in flight
upload_document_exclusive(d, f) ==
    /\ Len(runs) < MaxRuns
    /\ \A q \in 1..Len(runs) : runs[q].doc = d => runs[q].pc = "done"
    /\ documents' = [documents EXCEPT ![d] =
                        [exists |-> TRUE, summary |-> ProcessingMarker(router), file |-> f]]
    /\ runs' = Append(runs, [doc |-> d, file |-> f, pc |-> "analyze",
                             summary |-> <<>>, err |-> <<>>, written |-> 0,
                             path |-> "none", raised |-> FALSE, attempted |-> <<>>])
    /\ UNCHANGED <<pinecone_index, router, index, last, confVars, textVars>>

\* upload_document: stores the file, writes the row with the processing
\* marker and queues the background task.
upload_document(d, f) ==
    /\ Len(runs) < MaxRuns
    /\ documents' = [documents EXCEPT ![d] =
                        [exists |-> TRUE, summary |-> ProcessingMarker(router), file |-> f]]
    /\ runs' = Append(runs, [doc |-> d, file |-> f, pc |-> "analyze",
                             summary |-> <<>>, err |-> <<>>, written |-> 0,
                             path |-> "none", raised |-> FALSE, attempted |-> <<>>])
    /\ UNCHANGED <<pinecone_index, router, index, last, confVars, textVars>>

\* process_document_background, step 1: analyze_document and the summary text
\* built from its result (the join over the insights raises when they are no
\* strings; that router "documents" does not use them).
RunAnalyze(r, gemini) ==
    /\ runs[r].pc = "analyze"
    /\ LET analysis == analyze_document(runs[r].file, gemini)
           fs == IF router = "upload" THEN FinalSummary(analysis)
                 ELSE [raised |-> FALSE, text |-> analysis.summary]
       IN runs' = [runs EXCEPT ![r].pc = "embed",
                               ![r].summary = IF fs.raised THEN <<>> ELSE fs.text,
                               ![r].err = IF fs.raised THEN fs.text ELSE <<>>]
    /\ UNCHANGED <<pinecone_index, router, documents, index, last, confVars, textVars>>

\* faulty variant: a failed create_embeddings is treated as an exception of the run
RunEmbedRaises(r, fails, failAt) ==
    /\ runs[r].pc = "embed"
    /\ LET text_content == extract_text_from_file(runs[r].file)
           made == create_embeddings(index,
                       split_text(text_content, DefaultChunkSize, DefaultOverlap),
                       runs[r].doc, fails, failAt)
       IN IF text_content # <<>>
          THEN /\ index' = made.index
               /\ runs' = [runs EXCEPT ![r].pc = "write",
                                       ![r].err = IF made.ok THEN runs[r].err
                                                  ELSE Lit("429 quota exceeded")]
          ELSE /\ index' = index
               /\ runs' = [runs EXCEPT ![r].pc = "write"]
    /\ UNCHANGED <<pinecone_index, router, documents, last, confVars, textVars>>

\* step 2: extract the text, split it and create the embeddings
RunEmbed(r, fails, failAt) ==
    /\ runs[r].pc = "embed"
    /\ LET text_content == extract_text_from_file(runs[r].file)
       IN IF text_content # <<>>
          THEN index' = create_embeddings(index,
                            split_text(text_content, DefaultChunkSize, DefaultOverlap),
                            runs[r].doc, fails, failAt).index
          ELSE index' = index
    /\ runs' = [runs EXCEPT ![r].pc = "write"]
    /\ UNCHANGED <<pinecone_index, router, documents, last, confVars, textVars>>

WriteSummary(docs, d, text) ==
    IF docs[d].exists THEN [docs EXCEPT ![d].summary = text] ELSE docs

\* faulty variant: an exception after the successful status write
RunWriteThenRaise(r, db) ==
    /\ runs[r].pc = "write"
    /\ IF runs[r].err = <<>> /\ db.ok
       THEN /\ documents' = WriteSummary(documents, runs[r].doc, runs[r].summary)
            /\ runs' = [runs EXCEPT ![r].pc = "except", ![r].written = @ + 1,
                                    ![r].err = Lit("429 quota exceeded")]
       ELSE /\ runs' = [runs EXCEPT ![r].pc = "except",
                                    ![r].err = IF runs[r].err # <<>> THEN runs[r].err
                                               ELSE db.err]
            /\ UNCHANGED documents
    /\ UNCHANGED <<pinecone_index, router, index, last, confVars, textVars>>

\* step 3: the final status write; an exception of the summary text or of the
\* write leads to the exception handler
RunWrite(r, db) ==
    /\ runs[r].pc = "write"
    /\ IF runs[r].err # <<>>
       THEN /\ runs' = [runs EXCEPT ![r].pc = "except"]
            /\ UNCHANGED documents
       ELSE IF db.ok
       THEN /\ documents' = WriteSummary(documents, runs[r].doc, runs[r].summary)
            /\ runs' = [runs EXCEPT ![r].pc = "done", ![r].path = "normal",
                                    ![r].written = @ + 1, ![r].attempted = runs[r].summary,
                                    ![r].summary = <<>>]
       ELSE /\ runs' = [runs EXCEPT ![r].pc = "except", ![r].err = db.err]
            /\ UNCHANGED documents
    /\ UNCHANGED <<pinecone_index, router, index, last, confVars, textVars>>

\* faulty variant: a failure of the failure status write blocks the task
RunExceptBlocks(r, db) ==
    /\ runs[r].pc = "except"
    /\ LET error_summary == ErrorSummary(router, runs[r].err)
       IN IF db.ok
          THEN /\ documents' = WriteSummary(documents, runs[r].doc, error_summary)
               /\ runs' = [runs EXCEPT ![r].pc = "done", ![r].path = "except",
                                       ![r].written = @ + 1, ![r].err = <<>>,
                                       ![r].attempted = error_summary]
          ELSE /\ runs' = [runs EXCEPT ![r].pc = "blocked"]
               /\ UNCHANGED documents
    /\ UNCHANGED <<pinecone_index, router, index, last, confVars, textVars>>

\* the exception handler: the failure status write.  Router "upload" guards
\* it, router "documents" does not.
RunExcept(r, db) ==
    /\ runs[r].pc = "except"
    /\ LET error_summary == ErrorSummary(router, runs[r].err)
       IN IF db.ok
          THEN /\ documents' = WriteSummary(documents, runs[r].doc, error_summary)
               /\ runs' = [runs EXCEPT ![r].pc = "done", ![r].path = "except",
                                       ![r].written = @ + 1, ![r].err = <<>>,
                                       ![r].attempted = error_summary]
          ELSE /\ runs' = [runs EXCEPT ![r].pc = "done", ![r].path = "except",
                                       ![r].err = <<>>, ![r].attempted = error_summary,
                                       ![r].raised = (router = "documents")]
               /\ UNCHANGED documents
    /\ UNCHANGED <<pinecone_index, router, index, last, confVars, textVars>>

\* ------------------------------------------------------------------ questions
\* The environment of one query_rag call: `fails` of the three embed attempts
\* raise; the index query raises or ranks by `fn`; the generation call raises
\* or answers.
QueryEnv(fails, index_raises, fn, generate_raises) ==
    [fails |-> fails, index_raises |-> index_raises, fn |-> fn,
     generate_raises |-> generate_raises]
QueryEnvs ==
    {QueryEnv(3, FALSE, "near", FALSE), QueryEnv(0, TRUE, "near", FALSE)}
        \cup {QueryEnv(f, FALSE, "near", FALSE) : f \in 1..2}
        \cup {QueryEnv(0, FALSE, fn, g) : fn \in ScoreFns, g \in BOOLEAN}

\* The environment of the fallback: the download, the embed attempts and the
\* single upsert of create_embeddings, the direct generation call.
FallbackEnv(download_ok, fails, failAt, gen) ==
    [download_ok |-> download_ok, fails |-> fails, failAt |-> failAt, gen |-> gen]
EmbedEnvs == {<<f, 0>> : f \in EmbedFails} \cup {<<0, 1>>}
FallbackEnvs ==
    {FallbackEnv(FALSE, 0, 0, "answer")}
        \cup {FallbackEnv(TRUE, 0, 0, g) : g \in GenOutcomes}
        \cup {FallbackEnv(TRUE, e[1], e[2], "answer") : e \in {<<3, 0>>, <<0, 1>>}}

\* ask_question (chat.py): query_rag, the fallback, the two message rows
ask_question(d, qe) ==
    /\ last = NoAsk
    /\ documents[d].exists
    /\ LET q == query_rag(index, d, TopK, qe.fails, qe.index_raises, qe.fn,
                          qe.generate_raises)
           rag_response == IF q.ret.raised THEN Apology ELSE q.ret
           entered == FallbackCondition(rag_response)
       IN \E fe \in IF entered THEN FallbackEnvs ELSE {FallbackEnv(FALSE, 0, 0, "answer")} :
            LET fb == IF entered
                      THEN Fallback(index, documents[d], d, rag_response,
                                    fe.download_ok, fe.fails, fe.failAt, fe.gen)
                      ELSE [branch |-> "none", response |-> rag_response, index |-> index,
                            extracted |-> <<>>, embed_calls |-> 0, embedded |-> FALSE,
                            gen |-> "none"]
            IN /\ index' = fb.index
               /\ last' = [doc |-> d, q |-> q, entered |-> entered, branch |-> fb.branch,
                           stored |-> Cardinality({v \in index :
                                                      v.metadata.document_id = d}),
                           extracted |-> fb.extracted, response |-> fb.response,
                           fb_embed_calls |-> fb.embed_calls,
                           fb_embedded |-> fb.embedded, fb_gen |-> fb.gen]
    /\ UNCHANGED <<pinecone_index, router, documents, runs, confVars, textVars>>

\* the response has been delivered; the next question can be asked
NextQuestion ==
    /\ last # NoAsk
    /\ last' = NoAsk
    /\ UNCHANGED <<pinecone_index, router, documents, index, runs, confVars, textVars>>

\* ------------------------------------------------------------------ specifications
\* Questions over the documents ingested so far: the application of the flat
\* router modules (routers/upload.py, routers/chat.py), with the ingestion runs
\* whose analysis and status write succeed, one upload after the other.
Next ==
    \/ /\ \A r \in 1..Len(runs) : runs[r].pc = "done"
       /\ \E d \in Docs, f \in Files : upload_document(d, f)
    \/ \E r \in 1..Len(runs) : RunAnalyze(r, GeminiText)
    \/ \E r \in 1..Len(runs), e \in {<<0, 0>>, <<3, 0>>} : RunEmbed(r, e[1], e[2])
    \/ \E r \in 1..Len(runs) : RunWrite(r, [ok |-> TRUE, err |-> <<>>])
    \/ \E d \in Docs, qe \in QueryEnvs : ask_question(d, qe)
    \/ NextQuestion

Spec == Init /\ [][Next]_vars

\* Overlapping ingestion runs of one document id under either upload router,
\* with every outcome of the analysis and of the database.
NextIngest ==
    \/ \E f \in {F_EMPTY, F_DOC} : upload_document("A", f)
    \/ \E r \in 1..Len(runs), g \in AnalysisOutcomes : RunAnalyze(r, g)
    \/ \E r \in 1..Len(runs), e \in EmbedEnvs : RunEmbed(r, e[1], e[2])
    \/ \E r \in 1..Len(runs), db \in DbOutcomes : RunWrite(r, db)
    \/ \E r \in 1..Len(runs), db \in DbOutcomes : RunExcept(r, db)

InitIngest ==
    /\ pinecone_index \in BOOLEAN
    /\ router \in {"upload", "documents"}
    /\ documents = [d \in Docs |-> NoRow]
    /\ index = {}
    /\ runs = <<>>
    /\ last = NoAsk
    /\ confIn = <<>>
    /\ confOut = <<>>
    /\ callIn = NoCall
    /\ callOut = NoCall

SpecIngest == InitIngest /\ [][NextIngest]_vars

\* The confidence computation on pairs of match-score lists.
ScoreValues == {0, 5, 10}
RECURSIVE SeqsOf(_, _)
SeqsOf(S, n) ==
    IF n = 0 THEN {<<>>}
    ELSE LET shorter == SeqsOf(S, n - 1)
         IN shorter \cup {Append(q, x) : q \in {t \in shorter : Len(t) = n - 1}, x \in S}
ScoreLists == SeqsOf(ScoreValues, MaxScores) \ {<<>>}

InitConf ==
    /\ pinecone_index = TRUE
    /\ router = "upload"
    /\ documents = [d \in Docs |-> NoRow]
    /\ index = {}
    /\ runs = <<>>
    /\ last = NoAsk
    /\ confIn \in ScoreLists \X ScoreLists
    /\ confOut = <<>>
    /\ callIn = NoCall
    /\ callOut = NoCall

Confidence ==
    /\ confOut = <<>>
    /\ callIn = NoCall
    /\ callOut = NoCall
    /\ confOut' = <<ConfidenceOf(confIn[1]), ConfidenceOf(confIn[2])>>
    /\ UNCHANGED <<mainVars, confIn, textVars>>

SpecConf == InitConf /\ [][Confidence]_vars

\* ------------------------------------------------------------------ text services
\* One call of extract_text_from_file, split_text or create_embeddings on
\* arguments drawn from the sets below.
\*
\* A raw text is the sequence of its pieces between the sentence separators
\* ('\n\n' and '. '): piece k has `chars` characters after strip() (0 for a
\* blank piece) and ends or does not end with '.', '!' or '?'.
Piece(k, kind) == [k |-> k, chars |-> kind.chars, punct |-> kind.punct]
PieceKinds == { [chars |-> 0, punct |-> FALSE], [chars |-> 50, punct |-> FALSE],
                [chars |-> 450, punct |-> TRUE], [chars |-> 1200, punct |-> TRUE] }
RawTexts ==
    UNION { {[k \in 1..n |-> Piece(k, kinds[k])] : kinds \in [1..n -> PieceKinds]}
            : n \in 0..MaxSents }

\* split_text 311-325: blank pieces are skipped, a piece without terminal
\* punctuation gets a period
RECURSIVE Sentences(_)
Sentences(raw) ==
    IF raw = <<>> THEN <<>>
    ELSE LET piece == Head(raw)
         IN IF piece.chars = 0 THEN Sentences(Tail(raw))
            ELSE <<Sent("text", piece.k, piece.chars + IF piece.punct THEN 0 ELSE 1)>>
                    \o Sentences(Tail(raw))

ChunkSizes == {500, 1000}
Overlaps == {0, 1, 2, 100}

\* Files of the formats with a parser.  The bytes of a PDF decode, with
\* errors='ignore', to a non-empty string (its header and streams).
PdfBytes(name) == <<Sent(name, 0, 900)>>
F_PDF == [name |-> "report.pdf", ext |-> ".pdf", decoded |-> PdfBytes("report"),
          parsed |-> [k \in 1..3 |-> Sent("report", k, 300)], parse_ok |-> TRUE]
F_PDF_BAD == [name |-> "broken.pdf", ext |-> ".pdf", decoded |-> PdfBytes("broken"),
              parsed |-> <<>>, parse_ok |-> FALSE]
F_SCAN == [name |-> "scan.pdf", ext |-> ".pdf", decoded |-> PdfBytes("scan"),
           parsed |-> <<Sent("scan", 1, 20)>>, parse_ok |-> TRUE]
F_DOCX_BAD == [name |-> "broken.docx", ext |-> ".docx", decoded |-> PdfBytes("docx"),
               parsed |-> <<>>, parse_ok |-> FALSE]
TextFiles == Files \cup {F_PDF, F_PDF_BAD, F_SCAN, F_DOCX_BAD}

\* The text a second PDF parser (or OCR) would get from the bytes of the file;
\* extract_text_from_file has no such parser.
SecondParser(file) ==
    IF file.name = "scan.pdf" THEN [k \in 1..3 |-> Sent("scan", k, 300)] ELSE file.parsed

\* the chunks of a text of sentences of 900 characters, one sentence each:
\* they fill two upsert batches and start a third
LongChunks == [k \in 1..(2 * BatchSize + 1) |-> <<Sent("long", k, 900)>>]

\* chunk lists handed to create_embeddings, one of them with an empty chunk
ChunkLists ==
    {split_text(f.decoded, DefaultChunkSize, DefaultOverlap) : f \in Files}
        \cup {<<F_DOC.decoded, <<>>, F_SHORT.decoded>>}
        \cup {LongChunks}

\* outcomes of the external calls of one create_embeddings call, the second
\* and third upsert included
TextEmbedEnvs == EmbedEnvs \cup {<<0, 2>>, <<1, 3>>}

\* what the index holds before the call: nothing, or the vectors of an
\* earlier ingestion of F_DOC under id "A" and one vector of "B"
StaleIndex ==
    LET chunks == split_text(F_DOC.decoded, DefaultChunkSize, DefaultOverlap)
    IN {Vector("A", i - 1, chunks[i], "search_document") : i \in 1..Len(chunks)}
          \cup {Vector("B", 0, F_SHORT.decoded, "search_document")}
PriorIndexes == {{}, StaleIndex}

TextCalls ==
    {[op |-> "split", raw |-> raw, max_chunk_size |-> m, overlap |-> o]
        : raw \in RawTexts, m \in ChunkSizes, o \in Overlaps}
      \cup {[op |-> "extract", file |-> f] : f \in TextFiles}
      \cup {[op |-> "embed", chunks |-> c, document_id |-> d, prior |-> idx,
             fails |-> e[1], failAt |-> e[2]]
              : c \in ChunkLists, d \in Docs, idx \in PriorIndexes, e \in TextEmbedEnvs}

InitText ==
    /\ pinecone_index \in BOOLEAN
    /\ router = "upload"
    /\ documents = [d \in Docs |-> NoRow]
    /\ index = {}
    /\ runs = <<>>
    /\ last = NoAsk
    /\ confIn = <<>>
    /\ confOut = <<>>
    /\ callIn \in TextCalls
    /\ callOut = NoCall

SplitCall ==
    /\ callIn.op = "split" /\ callOut = NoCall
    /\ callOut' = [op |-> "split",
                   chunks |-> split_text(Sentences(callIn.raw), callIn.max_chunk_size,
                                         callIn.overlap)]
    /\ UNCHANGED <<mainVars, confVars, callIn>>

ExtractCall ==
    /\ callIn.op = "extract" /\ callOut = NoCall
    /\ callOut' = [op |-> "extract", text |-> extract_text_from_file(callIn.file)]
    /\ UNCHANGED <<mainVars, confVars, callIn>>

EmbedCall ==
    /\ callIn.op = "embed" /\ callOut = NoCall
    /\ LET made == create_embeddings(callIn.prior, callIn.chunks, callIn.document_id,
                                     callIn.fails, callIn.failAt)
       IN /\ callOut' = [op |-> "embed", ok |-> made.ok, upserts |-> made.upserts,
                         embed_calls |-> made.embed_calls]
          /\ index' = made.index
    /\ UNCHANGED <<pinecone_index, router, documents, runs, last, confVars, callIn>>

NextText == SplitCall \/ ExtractCall \/ EmbedCall

SpecText == InitText /\ [][NextText]_vars

\* ------------------------------------------------------------------ progress of the runs
\* The background task of an upload is scheduled and each of its external
\* calls returns or raises: every run keeps taking its next step.  The
\* application is the one of routers/upload.py; the uploaded file has a text
\* of one chunk.
ScheduledFiles == {F_SHORT}

RunStep(r) ==
    /\ r \in 1..Len(runs)
    /\ \/ \E g \in AnalysisOutcomes : RunAnalyze(r, g)
       \/ \E e \in {<<0, 0>>, <<3, 0>>} : RunEmbed(r, e[1], e[2])
       \/ \E db \in DbOutcomes : RunWrite(r, db)
       \/ \E db \in DbOutcomes : RunExcept(r, db)

NextScheduled ==
    \/ \E f \in ScheduledFiles : upload_document("A", f)
    \/ \E r \in 1..MaxRuns : RunStep(r)

InitScheduled ==
    /\ pinecone_index = TRUE
    /\ router = "upload"
    /\ documents = [d \in Docs |-> NoRow]
    /\ index = {}
    /\ runs = <<>>
    /\ last = NoAsk
    /\ confIn = <<>>
    /\ confOut = <<>>
    /\ callIn = NoCall
    /\ callOut = NoCall

SpecScheduled ==
    InitScheduled /\ [][NextScheduled]_vars /\ \A r \in 1..MaxRuns : WF_vars(RunStep(r))

\* ------------------------------------------------------------------ re-ingestion
\* delete_document (routers/documents.py): selects the row of the document,
\* deletes the stored file and then the row; it makes no call to the index.
\* The handler ends with status 500 before the DELETE when reading the row or
\* deleting the stored file raises (the row is read by column name from a
\* cursor the pool's connections create without a cursor factory).
delete_document(d, completes) ==
    /\ documents[d].exists
    /\ documents' = IF completes THEN [documents EXCEPT ![d] = NoRow] ELSE documents
    /\ UNCHANGED <<pinecone_index, router, index, runs, last, confVars, textVars>>

\* Uploads, re-uploads and deletions of one document id, overlapping or one
\* after the other, with questions on it.
ReingestFiles == {F_SHORT, F_DOC}
ReingestQueryEnvs == {QueryEnv(0, FALSE, "near", FALSE), QueryEnv(3, FALSE, "near", FALSE)}

NextReingest ==
    \/ \E f \in ReingestFiles : upload_document("A", f)
    \/ \E r \in 1..Len(runs) : RunAnalyze(r, GeminiText)
    \/ \E r \in 1..Len(runs), e \in EmbedEnvs : RunEmbed(r, e[1], e[2])
    \/ \E r \in 1..Len(runs) : RunWrite(r, [ok |-> TRUE, err |-> <<>>])
    \/ \E completes \in BOOLEAN : delete_document("A", completes)
    \/ \E qe \in ReingestQueryEnvs : ask_question("A", qe)
    \/ NextQuestion

SpecReingest == Init /\ [][NextReingest]_vars

\* ------------------------------------------------------------------ database connections
\* get_db_connection (database.py), a generator under @contextmanager.  The
\* state of one use: the position in the generator, the attempt of its loop,
\* the connection variable (0 is None), per connection taken from the pool
\* the putconn calls made for it and the ones the pool accepted, the number
\* of yields, the exception the with-body threw into the generator, and what
\* the with statement ends with.
MaxRetries == 3
PoolStates == {"ready", "initialised on demand", "unavailable"}
GetConnOutcomes == {"connection", "OperationalError", "PoolError"}
HealthOutcomes == {"healthy", "OperationalError", "DatabaseError"}
BodyOutcomes == {"normal", "DatabaseError", "Exception"}

DbStart ==
    [op |-> "db", pc |-> "start", attempt |-> 0, connection |-> 0, returned |-> <<>>,
     put_calls |-> <<>>, yields |-> 0, thrown |-> "none", result |-> "none"]

\* connection_pool.putconn: the pool takes back a connection it has lent and
\* raises PoolError for one it has not (the callers swallow that error).
putconn(st, c) ==
    [st EXCEPT !.put_calls[c] = @ + 1, !.returned[c] = IF @ = 0 THEN 1 ELSE @]

Finish(st, result) == [st EXCEPT !.pc = "done", !.result = result]

\* the finally clause: putconn, and putconn(close=True) when that raised
Finally(st) ==
    IF st.connection = 0 THEN st
    ELSE IF st.returned[st.connection] = 0 THEN putconn(st, st.connection)
    ELSE putconn(putconn(st, st.connection), st.connection)

\* The loop runs out and the generator returns without a yield: contextlib
\* raises RuntimeError("generator didn't yield") on entry, and takes the
\* StopIteration after a throw as "exception handled", so the with statement
\* ends normally.
LoopEnds(st) ==
    Finish(st, IF st.thrown = "none" THEN "RuntimeError" ELSE "suppressed")

NextAttempt(st) ==
    IF st.attempt < MaxRetries - 1
    THEN [st EXCEPT !.attempt = @ + 1, !.pc = "getconn"]
    ELSE LoopEnds(st)

\* the closed and unhealthy branches: putconn(close=True), connection = None, continue
Continue(st) ==
    NextAttempt([putconn(st, st.connection) EXCEPT !.connection = 0])

\* except (OperationalError, InterfaceError, DatabaseError)
ExceptDatabase(st) ==
    LET s == IF st.connection = 0 THEN st
             ELSE [putconn(st, st.connection) EXCEPT !.connection = 0]
    IN IF st.attempt < MaxRetries - 1
       THEN [s EXCEPT !.attempt = @ + 1, !.pc = "getconn"]
       ELSE Finish(s, "HTTPException")

\* except Exception: rollback and putconn, raise HTTPException, then finally
ExceptOther(st) ==
    Finish(Finally(IF st.connection = 0 THEN st ELSE putconn(st, st.connection)),
           "HTTPException")

\* yield connection: the with-body runs; a yield after a throw makes
\* contextlib raise RuntimeError("generator didn't stop after throw()") and
\* the generator is closed at that yield, which runs its finally clause.
Yield(st) ==
    IF st.thrown = "none"
    THEN [st EXCEPT !.yields = @ + 1, !.pc = "body"]
    ELSE Finish(Finally([st EXCEPT !.yields = @ + 1]), "RuntimeError")

EnterConnection ==
    /\ callIn.op = "db" /\ callOut.pc = "start"
    /\ callOut' = IF callIn.pool = "unavailable" THEN Finish(callOut, "HTTPException")
                  ELSE [callOut EXCEPT !.pc = "getconn"]
    /\ UNCHANGED <<mainVars, confVars, callIn>>

GetConn(outcome) ==
    /\ callIn.op = "db" /\ callOut.pc = "getconn"
    /\ callOut' =
         CASE outcome = "connection" ->
                [callOut EXCEPT !.connection = Len(callOut.returned) + 1,
                                !.returned = Append(@, 0),
                                !.put_calls = Append(@, 0),
                                !.pc = "closed"]
           [] outcome = "OperationalError" -> ExceptDatabase(callOut)
           [] OTHER -> ExceptOther(callOut)
    /\ UNCHANGED <<mainVars, confVars, callIn>>

ClosedCheck(closed) ==
    /\ callIn.op = "db" /\ callOut.pc = "closed"
    /\ callOut' = IF closed THEN Continue(callOut) ELSE [callOut EXCEPT !.pc = "health"]
    /\ UNCHANGED <<mainVars, confVars, callIn>>

HealthCheck(outcome) ==
    /\ callIn.op = "db" /\ callOut.pc = "health"
    /\ callOut' =
         CASE outcome = "healthy" -> Yield(callOut)
           [] outcome = "OperationalError" -> Continue(callOut)
           [] OTHER -> ExceptDatabase(callOut)
    /\ UNCHANGED <<mainVars, confVars, callIn>>

Body(outcome) ==
    /\ callIn.op = "db" /\ callOut.pc = "body"
    /\ callOut' =
         CASE outcome = "normal" -> Finish(Finally(callOut), "normal")
           [] outcome = "DatabaseError" ->
                ExceptDatabase([callOut EXCEPT !.thrown = "DatabaseError"])
           [] OTHER -> ExceptOther([callOut EXCEPT !.thrown = "Exception"])
    /\ UNCHANGED <<mainVars, confVars, callIn>>

InitDb ==
    /\ pinecone_index = TRUE
    /\ router = "upload"
    /\ documents = [d \in Docs |-> NoRow]
    /\ index = {}
    /\ runs = <<>>
    /\ last = NoAsk
    /\ confIn = <<>>
    /\ confOut = <<>>
    /\ callIn \in {[op |-> "db", pool |-> p] : p \in PoolStates}
    /\ callOut = DbStart

NextDb ==
    \/ EnterConnection
    \/ \E o \in GetConnOutcomes : GetConn(o)
    \/ \E closed \in BOOLEAN : ClosedCheck(closed)
    \/ \E o \in HealthOutcomes : HealthCheck(o)
    \/ \E o \in BodyOutcomes : Body(o)

SpecDb == InitDb /\ [][NextDb]_vars

\* ------------------------------------------------------------------ ownership of rows
\* get_chat_history (routers/chat.py) and get_user_documents
\* (routers/documents.py).  A request carries the user id of its token
\* (user_id, from get_current_user) and the optional query parameter userId.
\* The tables: the owner of each document id (NoUserId: no row), and the
\* documents with messages; ask_question stores the two rows of an exchange
\* under the token's user, for a document that user owns.
Users == {"u1", "u2"}
NoUserId == "none"
Roles == {"user", "assistant"}

DocumentRows(owners) ==
    {[id |-> d, user_id |-> owners[d]] : d \in {x \in Docs : owners[x] # NoUserId}}
QnaRows(owners, asked) ==
    {[document_id |-> d, user_id |-> owners[d], role |-> r] : d \in asked, r \in Roles}

OwnerRequests ==
    {[op |-> op, user_id |-> u, userId |-> p, docId |-> d, owners |-> o, asked |-> a]
        : op \in {"history", "documents"}, u \in Users, p \in Users \cup {NoUserId},
          d \in Docs, o \in [Docs -> Users \cup {NoUserId}], a \in SUBSET Docs}

\* final_user_id = userId if userId else user_id
final_user_id(req) == IF req.userId # NoUserId THEN req.userId ELSE req.user_id

get_chat_history ==
    /\ callIn.op = "history" /\ callOut = NoCall
    /\ LET final == final_user_id(callIn)
           found == \E row \in DocumentRows(callIn.owners) :
                       row.id = callIn.docId /\ row.user_id = final
       IN callOut' =
            IF ~found
            THEN [op |-> "history", status |-> 200, rows |-> {},
                  error |-> "Document not found or access denied"]
            ELSE [op |-> "history", status |-> 200,
                  rows |-> {q \in QnaRows(callIn.owners, callIn.asked) :
                               q.document_id = callIn.docId /\ q.user_id = final},
                  error |-> ""]
    /\ UNCHANGED <<mainVars, confVars, callIn>>

\* The rows come from connection.cursor(), which yields tuples on the pool's
\* connections; the formatting loop reads them by column name, so a result
\* with a row raises TypeError and the handler answers 500.
get_user_documents ==
    /\ callIn.op = "documents" /\ callOut = NoCall
    /\ LET final == final_user_id(callIn)
           selected == {row \in DocumentRows(callIn.owners) : row.user_id = final}
       IN callOut' =
            IF selected # {}
            THEN [op |-> "documents", status |-> 500, rows |-> {},
                  error |-> "Failed to fetch documents"]
            ELSE [op |-> "documents", status |-> 200, rows |-> {}, error |-> ""]
    /\ UNCHANGED <<mainVars, confVars, callIn>>

InitOwner ==
    /\ pinecone_index = TRUE
    /\ router = "upload"
    /\ documents = [d \in Docs |-> NoRow]
    /\ index = {}
    /\ runs = <<>>
    /\ last = NoAsk
    /\ confIn = <<>>
    /\ confOut = <<>>
    /\ callIn \in {req \in OwnerRequests :
                      \A d \in req.asked : req.owners[d] # NoUserId}
    /\ callOut = NoCall

NextOwner == get_chat_history \/ get_user_documents

SpecOwner == InitOwner /\ [][NextOwner]_vars

\* ================================================================== properties
Asked == last # NoAsk
Ret == last.q.ret
UnitInterval(c) == RatLeq(Zero, c) /\ RatLeq(c, One)
Terminated(r) == runs[r].pc = "done"
RunIds == 1..Len(runs)

\* C1: query_rag returns a result with answer, sources and confidence and
\* never raises, whatever the embedding call, the index query or the
\* generation call does; when one of them fails the result has confidence
\* 0.0, no sources and the explanatory answer.  (The embedding call of
\* query_rag is its three attempts: it fails when the third one fails.)
C1_QueryRagNeverRaises ==
    Asked =>
        /\ ~Ret.raised
        /\ {"answer", "sources", "confidence"} \subseteq DOMAIN Ret
        /\ last.q.failed # "none" =>
              /\ RatEq(Ret.confidence, Zero)
              /\ Ret.sources = <<>>
              /\ Ret.answer = "Sorry, I encountered an error while searching the document"

C1_Witness ==
    /\ Asked
    /\ last.q.failed = "generate"
    /\ last.q.matches # <<>>
    /\ ~Ret.raised

\* C2 as stated: with zero matches the fallback runs; sufficient re-extracted
\* text (at least 50 characters) gives confidence exactly 0.5, and an
\* extraction that yields nothing gives confidence 0.0 and no sources.
ZeroMatches == Asked /\ last.q.queried /\ last.q.failed = "none" /\ last.q.matches = <<>>
SufficientText == last.extracted # <<>> /\ JoinedLen(last.extracted) >= 50

C2_SufficientTextGivesHalf ==
    ZeroMatches =>
        /\ last.entered
        /\ SufficientText => RatEq(last.response.confidence, Half)
        /\ last.extracted = <<>> =>
              RatEq(last.response.confidence, Zero) /\ last.response.sources = <<>>

\* C2 amended: with zero matches the fallback runs; the confidence is exactly
\* 0.5 when the re-extracted text is sufficient and the direct generation call
\* returns a non-empty answer, and in every other case (the call raises or
\* answers nothing, the text is too short, the extraction yields nothing) the
\* result has confidence 0.0 and no sources.
C2_HalfWhenAnsweredElseZero ==
    ZeroMatches =>
        /\ last.entered
        /\ last.response.sources = <<>>
        /\ IF SufficientText /\ last.branch = "answered"
           THEN RatEq(last.response.confidence, Half)
           ELSE RatEq(last.response.confidence, Zero)

C2_Witness ==
    /\ ZeroMatches
    /\ SufficientText
    /\ last.branch = "answered"
    /\ RatEq(last.response.confidence, Half)

\* C3: the fallback is never entered for a question whose index query
\* returned at least one match.
C3_NoFallbackAfterMatches ==
    Asked => ~(last.entered /\ Len(last.q.matches) >= 1)

\* C4: every index query of query_rag carries the filter document_id = the
\* requested id; no match belongs to another document, and a document without
\* vectors gets zero matches whatever the other documents have stored.
C4_NamespaceIsolation ==
    (Asked /\ last.q.queried) =>
        /\ last.q.filter = last.doc
        /\ \A i \in 1..Len(last.q.matches) :
              last.q.matches[i].metadata.document_id = last.doc
        /\ last.stored = 0 => last.q.matches = <<>>

C4_Witness ==
    /\ Asked /\ last.q.queried /\ last.q.failed = "none"
    /\ last.doc = "B"
    /\ last.stored = 0
    /\ last.q.matches = <<>>
    /\ \E v \in index : v.metadata.document_id = "A"

\* C5: every result of the question path has a confidence in [0,1].
C5_ConfidenceInUnitInterval ==
    Asked => UnitInterval(last.response.confidence)

\* C6 as stated: for non-empty score lists in [0,1], the confidence is
\* non-decreasing in the maximum score.
MaxOf(scores) == CHOOSE m \in {scores[i] : i \in 1..Len(scores)} :
                    \A i \in 1..Len(scores) : scores[i] <= m
Computed == confOut # <<>>

Retrieved == Asked /\ Ret.answer = "generated"

C7_SourcesInResultOrder ==
    Retrieved =>
        /\ Len(Ret.sources) = Len(last.q.matches)
        /\ Len(Ret.sources) <= 5
        /\ Len(last.q.context) = Len(last.q.matches)
        /\ \A i \in 1..Len(last.q.matches) :
              /\ Ret.sources[i] = last.q.matches[i].metadata.chunk_index
              /\ last.q.context[i] = last.q.matches[i].metadata.text
        /\ \A i, j \in 1..Len(last.q.matches) :
              i < j => last.q.matches[i].score >= last.q.matches[j].score

C7_Witness ==
    /\ Retrieved
    /\ last.stored > 5
    /\ Len(Ret.sources) = 5
    /\ Ret.sources[1] > Ret.sources[2]

\* C8: a run that ended in the exception path attempted the failure status
\* write with the error message cut to 200 characters, and the background
\* task did not raise to its caller, also when that write failed.
C8_FailureStatusAndNoRaise ==
    \A r \in RunIds :
        (Terminated(r) /\ runs[r].path = "except") =>
            /\ Contains(runs[r].attempted, "failed")
            /\ StrLen(runs[r].attempted) <= 22 + 200 + 44
            /\ ~runs[r].raised

\* C9: the status get_upload_status derives from the text a terminated run
\* of routers/upload.py wrote is terminal: 'completed' after the normal path,
\* 'failed' after the exception path, never 'processing' or 'pending'.
WroteCurrent(r) ==
    /\ Terminated(r)
    /\ runs[r].written = 1
    /\ documents[runs[r].doc].summary = runs[r].attempted

C9_TerminalStatus ==
    \A r \in RunIds :
        (router = "upload" /\ WroteCurrent(r)) =>
            DeriveStatus(documents[runs[r].doc].summary)
                = IF runs[r].path = "normal" THEN "completed" ELSE "failed"

AnalysisPayloads(file) ==
    {(IF router = "upload" THEN FinalSummary(analyze_document(file, g)).text
      ELSE analyze_document(file, g).summary) : g \in AnalysisOutcomes}

C11_EmbeddingFailureDegrades ==
    /\ [](\A r \in RunIds :
            (Terminated(r) /\ runs[r].path = "normal") =>
                /\ runs[r].attempted \in AnalysisPayloads(runs[r].file)
                /\ Head(runs[r].attempted).w # "AI processing failed: ")
    /\ [][\A r \in RunIds :
            (runs[r].pc = "embed" /\ runs'[r] # runs[r]) =>
                /\ runs'[r] = [runs[r] EXCEPT !.pc = "write"]
                /\ documents' = documents]_vars

C11_Witness ==
    \E r \in RunIds :
        /\ Terminated(r) /\ runs[r].path = "normal" /\ runs[r].written = 1
        /\ runs[r].file = F_DOC
        /\ pinecone_index
        /\ \A v \in index : v.metadata.document_id # runs[r].doc
        /\ documents[runs[r].doc].summary = runs[r].attempted
        /\ Contains(runs[r].attempted, "completed")

\* C12: overlapping runs of one document id do not exclude each other: an
\* upload is accepted while a run of the id is in flight and leaves the runs
\* in flight as they are, a step of one run changes no other run, a run can
\* take its analysis, write and handler steps whatever the other runs do, and
\* every status write replaces the status text unconditionally, so the text
\* is the one of the latest write.
DbOk == [ok |-> TRUE, err |-> <<>>]
CanStep(r) ==
    CASE runs[r].pc = "analyze" -> ENABLED RunAnalyze(r, GeminiText)
      [] runs[r].pc = "write" -> ENABLED RunWrite(r, DbOk)
      [] runs[r].pc = "except" -> ENABLED RunExcept(r, DbOk)
      [] OTHER -> TRUE

C12_OverlappingRunsLastWriteWins ==
    [][/\ Len(runs) < MaxRuns => ENABLED upload_document("A", F_DOC)
       /\ \A r \in RunIds : CanStep(r)
       /\ Len(runs') >= Len(runs)
       /\ \A r \in RunIds :
            /\ runs'[r] # runs[r] => \A q \in RunIds \ {r} : runs'[q] = runs[q]
            /\ runs'[r] # runs[r] => runs[r].pc # "done"
            /\ runs'[r].written = runs[r].written + 1 =>
                  documents'[runs[r].doc].summary = runs'[r].attempted]_vars

\* both runs wrote, and the text is the one of the run of the earlier upload
C12_Witness ==
    /\ Len(runs) >= 2
    /\ runs[1].doc = runs[2].doc
    /\ Terminated(1) /\ runs[1].written = 1
    /\ Terminated(2) /\ runs[2].written = 1
    /\ runs[1].attempted # runs[2].attempted
    /\ documents[runs[1].doc].summary = runs[1].attempted
    /\ documents[runs[1].doc].file = runs[2].file
    /\ runs[1].file # runs[2].file

\* C13: every chunk split_text returns is at most max_chunk_size characters
\* long, except a chunk that holds a sentence which is itself longer.
Split == callOut.op = "split"
ChunkLen(chunk) == JoinedLen(chunk)
HasOversized(chunk, max_chunk_size) ==
    \E i \in 1..Len(chunk) : chunk[i].len > max_chunk_size

C13_ChunkWithinMaxSize ==
    Split =>
        \A i \in 1..Len(callOut.chunks) :
            \/ ChunkLen(callOut.chunks[i]) <= callIn.max_chunk_size
            \/ HasOversized(callOut.chunks[i], callIn.max_chunk_size)

\* C14: dropping from every chunk after the first the sentences it shares
\* with the chunk before it and concatenating what remains yields the
\* sentences of the text, each once and in the order of the text.
OwnPart(chunks, i) ==
    IF i = 1 THEN chunks[1]
    ELSE LET Carried(sentence) ==
                 \E j \in 1..Len(chunks[i - 1]) : chunks[i - 1][j] = sentence
             Own(sentence) == ~Carried(sentence)
         IN SelectSeq(chunks[i], Own)

RECURSIVE OwnParts(_, _)
OwnParts(chunks, i) ==
    IF i > Len(chunks) THEN <<>> ELSE OwnPart(chunks, i) \o OwnParts(chunks, i + 1)

C14_OwnPartsReconstructText ==
    Split => OwnParts(callOut.chunks, 1) = Sentences(callIn.raw)

C14_Witness ==
    /\ Split
    /\ Len(callOut.chunks) >= 2
    /\ Len(OwnPart(callOut.chunks, 2)) < Len(callOut.chunks[2])
    /\ Len(Sentences(callIn.raw)) < Len(callIn.raw)

\* C15: split_text returns the empty list for the empty text, whatever
\* max_chunk_size and overlap, and extract_text_from_file returns the empty
\* string for a .txt file of zero bytes.
Extracted == callOut.op = "extract"

C15_EmptyInEmptyOut ==
    /\ (Split /\ callIn.raw = <<>>) => callOut.chunks = <<>>
    /\ (Extracted /\ callIn.file.ext = ".txt" /\ callIn.file.decoded = <<>>) =>
           callOut.text = <<>>

C15_Witness ==
    /\ Extracted
    /\ callIn.file = F_EMPTY
    /\ callOut.text = <<>>

\* C16: when the parser of the file's format raises, extract_text_from_file
\* returns the empty string.
C16_EmptyOnParserFailure ==
    (/\ Extracted
     /\ callIn.file.ext \in {".pdf", ".docx", ".doc"}
     /\ ~callIn.file.parse_ok) => callOut.text = <<>>

\* C18: a chunk that follows a closed chunk starts with the trailing `overlap`
\* sentences of the closed chunk (all of them when it has fewer), followed by
\* the sentence that did not fit.
Trailing(chunk, n) == SubSeq(chunk, Len(chunk) - Min(n, Len(chunk)) + 1, Len(chunk))

C18_OverlapParameterSentences ==
    Split =>
        \A i \in 2..Len(callOut.chunks) :
            LET closed == callOut.chunks[i - 1]
                carried == Trailing(closed, callIn.overlap)
                chunk == callOut.chunks[i]
            IN /\ Len(chunk) > Len(carried)
               /\ SubSeq(chunk, 1, Len(carried)) = carried
               /\ \A j \in 1..Len(closed) : chunk[Len(carried) + 1] # closed[j]

\* C19: for a PDF whose parser yields fewer than 50 characters while a second
\* parser yields more from the same bytes, the extractor returns the second
\* parser's text.
C19_SecondPdfParser ==
    (/\ Extracted
     /\ callIn.file.ext = ".pdf"
     /\ callIn.file.parse_ok
     /\ JoinedLen(callIn.file.parsed) < 50
     /\ JoinedLen(SecondParser(callIn.file)) > JoinedLen(callIn.file.parsed))
        => callOut.text = SecondParser(callIn.file)

\* C20: after create_embeddings succeeded on n non-empty chunks, the vectors
\* it wrote are the ids document_id_0 .. document_id_(n-1), one each, the
\* vector i with metadata document_id, chunk_index i and the excerpt of the
\* i-th non-empty chunk; every other vector of the index is as it was.
Embedded == callOut.op = "embed" /\ callOut.ok
NonEmptyChunks == SelectSeq2(callIn.chunks)
WrittenIds == {<<callIn.document_id, i>> : i \in 0..(Len(NonEmptyChunks) - 1)}

C20_DenseVectorIds ==
    Embedded =>
        /\ \A id \in WrittenIds :
              /\ Cardinality({v \in index : v.id = id}) = 1
              /\ \A v \in index :
                    v.id = id =>
                        v.metadata = [document_id |-> callIn.document_id,
                                      chunk_index |-> id[2],
                                      text |-> Excerpt(NonEmptyChunks[id[2] + 1])]
        /\ {v \in index : v.id \notin WrittenIds}
              = {v \in callIn.prior : v.id \notin WrittenIds}

C20_Witness ==
    /\ Embedded
    /\ Len(NonEmptyChunks) = 2
    /\ Len(callIn.chunks) = 3
    /\ callIn.prior = StaleIndex
    /\ callIn.document_id = "A"
    /\ \E v \in index : v.id = <<"A", 5>>

\* An answered question on a document with one terminated run, whose
\* extraction yields the empty string and whose index query returned.
EmptyDocumentAsked(r) ==
    /\ Asked /\ last.doc = runs[r].doc
    /\ Terminated(r)
    /\ extract_text_from_file(runs[r].file) = <<>>
    /\ \A q \in RunIds : runs[q].doc = runs[r].doc => q = r
    /\ last.stored = 0
    /\ last.q.queried /\ last.q.failed = "none"

\* C17: for a document whose extraction yields the empty string, the run
\* terminates without raising, stores no vector and leaves a terminal status
\* (failed, or completed with a degraded payload); a question on it whose
\* index query returns gets zero matches, enters the fallback, extracts
\* nothing there and is answered with confidence 0.0, no sources and the
\* 'could not find relevant information' answer.
C17_EmptyDocumentFlow ==
    \A r \in RunIds :
        EmptyDocumentAsked(r) =>
            /\ ~runs[r].raised
            /\ \A v \in index : v.metadata.document_id # runs[r].doc
            /\ DeriveStatus(documents[runs[r].doc].summary) \in {"failed", "completed"}
            /\ last.q.matches = <<>>
            /\ last.entered
            /\ last.extracted = <<>>
            /\ RatEq(last.response.confidence, Zero)
            /\ last.response.sources = <<>>
            /\ last.response.answer = "I could not find relevant information"

\* The chunks an ingestion of `file` hands to the index.
ChunksOf(file) ==
    SelectSeq2(split_text(extract_text_from_file(file), DefaultChunkSize, DefaultOverlap))
VectorsOf(idx, d) == {v \in idx : v.metadata.document_id = d}
EmbedStep(r) == runs[r].pc = "embed" /\ runs'[r].pc = "write"
AskStep == last = NoAsk /\ last' # NoAsk

\* The content embedded under document id d by the step, if any: the file of
\* a run at its embedding step, or the stored file in the fallback.
EmbeddedNow(d) ==
    {ChunksOf(runs[r].file) : r \in {q \in RunIds : runs[q].doc = d /\ EmbedStep(q)}}
        \cup (IF AskStep /\ last'.doc = d /\ last'.entered
              THEN {ChunksOf(documents[d].file)} ELSE {})

\* C21: no step of ingestion, of document deletion or of a question removes a
\* vector id from the index: a vector is either kept as it is or overwritten
\* under the same id by an embedding of N' chunks of that document id, and
\* then its index is below N'.  A re-ingestion that changes the index has
\* written the vectors 0..N'-1 of the new content, so the vectors N'..N-1 of
\* an earlier, longer content remain; a query filtered to the document id
\* ranks all vectors stored under it, the remaining ones included.
C21_StaleVectorsRemain ==
    [][/\ AskStep /\ last'.q.queried /\ last'.q.failed \in {"none", "generate"} =>
             Len(last'.q.matches) = Min(TopK, Cardinality(VectorsOf(index, last'.doc)))
       /\ \A v \in index :
           \/ v \in index'
           \/ \E chunks \in EmbeddedNow(v.metadata.document_id) :
                 /\ v.metadata.chunk_index < Len(chunks)
                 /\ \E w \in index' : w.id = v.id
       /\ \A r \in RunIds :
             EmbedStep(r) /\ index' # index =>
                LET chunks == ChunksOf(runs[r].file)
                IN \A i \in 1..Len(chunks) :
                      \E w \in index' : /\ w.id = <<runs[r].doc, i - 1>>
                                         /\ w.metadata.text = Excerpt(chunks[i])]_vars

\* The file was re-uploaded with a shorter content and ingested; a question
\* on the document gets the chunk of the new content and chunks of the old.
C21_Witness ==
    /\ Len(runs) = 2
    /\ runs[1].file = F_DOC /\ runs[2].file = F_SHORT
    /\ Terminated(1) /\ Terminated(2)
    /\ documents["A"].file = F_SHORT
    /\ Cardinality(VectorsOf(index, "A")) = Len(ChunksOf(F_DOC))
    /\ \E v \in index : v.id = <<"A", 0>> /\ v.metadata.text = Excerpt(F_SHORT.decoded)
    /\ Asked /\ last.doc = "A" /\ ~last.entered
    /\ Len(last.q.matches) = TopK
    /\ last.q.matches[1].metadata.text = Excerpt(F_SHORT.decoded)
    /\ last.q.matches[2].metadata.text.sents[1].f = "doc"

EmbedReturned == callOut.op = "embed"
RECURSIVE Concat(_)
Concat(seqs) == IF seqs = <<>> THEN <<>> ELSE Head(seqs) \o Concat(Tail(seqs))

\* C22: every upsert call of create_embeddings carries at most 100 vectors
\* and none carries no vector; when the call returns True, the ids of the
\* batches, concatenated in call order, are '{document_id}_0' ..
\* '{document_id}_{n-1}' in chunk order, each once, and the index afterwards
\* holds exactly the batches' vectors under these ids.
C22_UpsertBatches ==
    EmbedReturned =>
        /\ \A b \in 1..Len(callOut.upserts) :
              Len(callOut.upserts[b]) \in 1..100
        /\ callOut.ok =>
              LET sent == Concat(callOut.upserts)
              IN /\ Len(sent) = Len(NonEmptyChunks)
                 /\ \A i \in 1..Len(sent) :
                       /\ sent[i].id = <<callIn.document_id, i - 1>>
                       /\ sent[i].metadata.text = Excerpt(NonEmptyChunks[i])
                       /\ sent[i] \in index

\* a successful call on more chunks than two batches hold: three upserts
C22_Witness ==
    /\ EmbedReturned /\ callOut.ok
    /\ Len(callIn.chunks) = 201
    /\ Len(callOut.upserts) = 3
    /\ Len(callOut.upserts[1]) = 100 /\ Len(callOut.upserts[3]) = 1

\* C23: every vector in the index was produced by an embedding call with
\* input_type search_document, and the query vector of every index query of
\* query_rag by a call with input_type search_query.
C23_EmbeddingModes ==
    /\ \A v \in index : v.values.input_type = "search_document"
    /\ Asked /\ last.q.queried => last.q.input_type = "search_query"

\* C24: when create_embeddings returns False the index is as it was before
\* the call: no vector of the call has been written.
C24_FailedEmbeddingWritesNothing ==
    EmbedReturned /\ ~callOut.ok => index = callIn.prior

\* the branches of the fallback that call create_embeddings and the direct
\* generation
FallbackCalled == last.branch \in {"answered", "generation failed", "empty answer"}

\* C25: one query_rag call and one create_embeddings call invoke the
\* embedding client at most once, and a question whose embedding or
\* generation call failed in query_rag makes no further embedding or
\* generation call.
C25_NoRetry ==
    Asked =>
        /\ last.q.embed_calls <= 1
        /\ last.fb_embed_calls <= 1
        /\ last.q.failed = "embed" => last.fb_embed_calls = 0
        /\ last.q.failed = "generate" => ~FallbackCalled

\* the fallback got at least 50 characters from the stored original
FallbackWithText ==
    Asked /\ last.entered /\ last.extracted # <<>> /\ JoinedLen(last.extracted) >= 50
Direct == Result("direct", <<>>, Half)

\* C26: with sufficient re-extracted text the fallback embeds the chunks of
\* that text under the document id of the question and nothing else; whether
\* the embedding succeeds or fails, the response is the direct answer when the
\* generation call answers; when the embedding succeeds the index holds a
\* vector for every chunk; and a question asked while the index holds a
\* vector of its document id, whose query_rag calls succeed, gets matches and
\* is answered by retrieval, not by the fallback.
C26_FallbackEmbedsForLater ==
    [][AskStep =>
        LET asked == last'
            chunks == ChunksOf(documents[asked.doc].file)
            sufficient == /\ asked.entered /\ asked.extracted # <<>>
                          /\ JoinedLen(asked.extracted) >= 50
        IN /\ sufficient /\ pinecone_index =>
                 /\ asked.fb_embed_calls >= 1
                 /\ asked.fb_gen \in GenOutcomes
                 /\ asked.fb_gen = "answer" => asked.response = Direct
                 /\ asked.fb_gen # "answer" => asked.response = asked.q.ret
                 /\ asked.fb_embed_calls = 3 => ~asked.fb_embedded
           /\ \A w \in index' \ index :
                 /\ sufficient
                 /\ w.metadata.document_id = asked.doc
                 /\ \E i \in 1..Len(chunks) :
                       w = Vector(asked.doc, i - 1, chunks[i], w.values.input_type)
           /\ asked.fb_embedded =>
                 /\ sufficient
                 /\ \A i \in 1..Len(chunks) :
                       \E w \in index' : /\ w.id = <<asked.doc, i - 1>>
                                          /\ w.metadata.text = Excerpt(chunks[i])
           /\ asked.stored > 0 /\ asked.q.queried /\ asked.q.failed = "none" =>
                 /\ asked.q.matches # <<>>
                 /\ ~asked.entered
                 /\ asked.response.answer = "generated"
                 /\ asked.response.sources # <<>>]_vars

\* the embedding of the fallback failed and the direct answer was given
C26_Witness ==
    /\ FallbackWithText /\ pinecone_index
    /\ last.q.failed = "none" /\ last.q.matches = <<>>
    /\ last.fb_embed_calls = 3 /\ ~last.fb_embedded
    /\ last.fb_gen = "answer" /\ last.response = Direct
    /\ VectorsOf(index, last.doc) = {}

Processing(d) == documents[d].exists /\ documents[d].summary = ProcessingMarker(router)

LatestRun(d) == CHOOSE r \in RunIds : runs[r].doc = d /\ \A q \in RunIds : runs[q].doc = d => q <= r

VectorsFromFile(idx, d, file) ==
    LET chunks == ChunksOf(file)
    IN \A v \in VectorsOf(idx, d) :
          /\ v.metadata.chunk_index < Len(chunks)
          /\ v.metadata.text = Excerpt(chunks[v.metadata.chunk_index + 1])

\* Run r ends with this step while a run of the same document id that was
\* started after it has already ended: the two runs overlapped, and both
\* have terminated after the step.
OverlappedRunsEnd(r) ==
    /\ runs[r].pc # "done" /\ runs'[r].pc = "done"
    /\ \E q \in RunIds : q > r /\ runs[q].doc = runs[r].doc /\ Terminated(q)
    /\ \A q \in RunIds : runs[q].doc = runs[r].doc => runs'[q].pc = "done"

\* C28: when two overlapping ingestion runs of one document id have both
\* terminated, the vectors stored under that id are the chunks of the file
\* of one of its runs: no id carries a chunk of one upload while another id
\* carries a chunk of the other upload.
C28_VectorsFromOneRun ==
    [][\A r \in RunIds :
          OverlappedRunsEnd(r) =>
             \E p \in RunIds : /\ runs[p].doc = runs[r].doc
                               /\ VectorsFromFile(index', runs[r].doc, runs[p].file)]_vars


DbCall == callOut.op = "db"
DbDone == DbCall /\ callOut.pc = "done"

\* C29: one use of get_db_connection yields at most one connection; when the
\* use has ended, every connection taken from the pool has been given back
\* to it exactly once; and a use that ends without having yielded a
\* connection ends with an HTTPException.
C29_ConnectionManager ==
    DbCall =>
       /\ callOut.yields <= 1
       /\ DbDone => \A c \in 1..Len(callOut.returned) : callOut.returned[c] = 1
       /\ DbDone /\ callOut.yields = 0 => callOut.result = "HTTPException"


OwnerCallReturned == callOut.op \in {"history", "documents"}

\* C30: every message returned by get_chat_history and every document
\* returned by get_user_documents is a row of the user of the request's
\* token, whatever the userId and docId parameters of the request are.
C30_OnlyOwnRows ==
    OwnerCallReturned => \A row \in callOut.rows : row.user_id = callIn.user_id

====
